---- MODULE Spec2Model ----
(***************************************************************************)
(* Model of site/generate.py: the one-shot generator of the two download   *)
(* pages (JBR, SPAN).  Text is modelled as TLA+ strings handled character  *)
(* by character (Len, SubSeq, \o), the output folder as a small file       *)
(* system, and _cli() as a sequential process with one step per statement. *)
(***************************************************************************)
EXTENDS Integers, Sequences, FiniteSets, TLC

\* ------------------------------------------------------------------------
\* Bounds of the model
\* ------------------------------------------------------------------------
\* number of pieces a drawn template text is concatenated from
MaxPieces == 3
\* number of successive runs of the entry point in one behaviour
MaxRuns == 2

\* ------------------------------------------------------------------------
\* Program constants (generate.py:19-23)
\* ------------------------------------------------------------------------
SPAN_BUILD == "0.11.0.4882"
SPAN_DATE == "May 17, 2019"
JBR_BUILD == "1.0.beta.4882"
JBR_DATE == "May 17, 2019"

\* template = '...' in the two generators; also the output file names
JBR_TEMPLATE == "jetbrains_research_jbr.html"
\* the SPAN generator given the name of the JBR template
SPAN_TEMPLATE_copied == "jetbrains_research_jbr.html"
SPAN_TEMPLATE == "jetbrains_research_span.html"

\* ------------------------------------------------------------------------
\* str methods
\* ------------------------------------------------------------------------
\* str.find(sub, start): lowest 1-based index >= start of an occurrence of
\* sub in s, 0 when there is none
find(s, sub, start) ==
    LET hits == {i \in start..(Len(s) - Len(sub) + 1) :
                    SubSeq(s, i, i + Len(sub) - 1) = sub}
    IN IF hits = {} THEN 0
       ELSE CHOOSE i \in hits : \A j \in hits : i <= j

RECURSIVE replace_from(_, _, _, _)
replace_from(s, old, new, start) ==
    LET i == find(s, old, start)
    IN IF i = 0 THEN SubSeq(s, start, Len(s))
       ELSE SubSeq(s, start, i - 1) \o new
            \o replace_from(s, old, new, i + Len(old))

\* a replace that stops after the first occurrence (count = 1)
replace_first(s, old, new) ==
    LET i == find(s, old, 1)
    IN IF i = 0 THEN s
       ELSE SubSeq(s, 1, i - 1) \o new \o SubSeq(s, i + Len(old), Len(s))

\* str.replace(old, new): every non-overlapping occurrence of old, found
\* left to right in the original text, is replaced; new is not rescanned
replace(s, old, new) == replace_from(s, old, new, 1)

\* str.format with auto-numbered fields "{}": the k-th field takes args[k]
RECURSIVE format(_, _)
format(fmt, args) ==
    LET i == find(fmt, "{}", 1)
    IN IF i = 0 THEN fmt
       ELSE SubSeq(fmt, 1, i - 1) \o Head(args)
            \o format(SubSeq(fmt, i + 2, Len(fmt)), Tail(args))

\* a format that fills only the first field
format0_first(fmt, arg) == replace_first(fmt, "{0}", arg)

\* str.format with the explicit field "{0}": every field takes the argument
format0(fmt, arg) == replace(fmt, "{0}", arg)

\* '\n'.join(parts)
RECURSIVE join(_, _)
join(sep, parts) ==
    IF parts = <<>> THEN ""
    ELSE IF Len(parts) = 1 THEN parts[1]
    ELSE parts[1] \o sep \o join(sep, Tail(parts))

\* ------------------------------------------------------------------------
\* generate_jbr_data: descriptors, rows, substitutions
\* ------------------------------------------------------------------------
DistrDescriptor(title, suffix, folder) ==
    [title |-> title, suffix |-> suffix, folder |-> folder]

\* the list with the two Windows descriptors exchanged
descrs_x86_first == <<
    DistrDescriptor("Windows 32-bit ZIP archive (includes bundled 32-bit Java Runtime)",
                    "_x86.zip", "win"),
    DistrDescriptor("Windows 64-bit ZIP archive (includes bundled 64-bit Java Runtime)",
                    "_x64.zip", "win"),
    DistrDescriptor("Mac installer (includes bundled 64-bit Java Runtime)",
                    ".dmg", "mac"),
    DistrDescriptor("Linux archive (includes bundled 64-bit Java Runtime)",
                    ".tar.gz", "linux") >>

descrs == <<
    DistrDescriptor("Windows 64-bit ZIP archive (includes bundled 64-bit Java Runtime)",
                    "_x64.zip", "win"),
    DistrDescriptor("Windows 32-bit ZIP archive (includes bundled 32-bit Java Runtime)",
                    "_x86.zip", "win"),
    DistrDescriptor("Mac installer (includes bundled 64-bit Java Runtime)",
                    ".dmg", "mac"),
    DistrDescriptor("Linux archive (includes bundled 64-bit Java Runtime)",
                    ".tar.gz", "linux") >>

jbr_create_tr(dd, build) ==
    LET code_base == "https://download.jetbrains.com/biolabs/jbr_browser"
        fname == format("jbr-{}{}", <<build, dd.suffix>>)
        url == format("{}/{}/{}", <<code_base, dd.folder, fname>>)
    IN format("\n        <tr>\n            <td> <a href=\"{}\">{}</a></td>\n            <td>{}</td>\n        </tr>\n        ",
              <<url, fname, dd.title>>)

\* '\n'.join([create_tr(d, JBR_BUILD) for d in descrs])
jbr_table == join("\n", [k \in 1..Len(descrs) |-> jbr_create_tr(descrs[k], JBR_BUILD)])

\* content = template_html.replace(@TABLE@).replace(@BUILD@).replace(@DATE@)
jbr_content(template_html) ==
    replace(replace(replace(template_html, "@TABLE@", jbr_table),
                    "@BUILD@", JBR_BUILD),
            "@DATE@", JBR_DATE)

\* a key that lacks its closing @
filename_key_open(dd) == format("@FILENAME-{}", <<dd.folder>>)

\* fname = '@FILENAME-{}@'.format(dd.folder)
filename_key(dd) == format("@FILENAME-{}@", <<dd.folder>>)

\* "{}{}".format(JBR_BUILD, dd.suffix)
filename_value(dd) == format("{}{}", <<JBR_BUILD, dd.suffix>>)

\* ------------------------------------------------------------------------
\* generate_span_data: row, substitutions
\* ------------------------------------------------------------------------
span_create_tr(build) ==
    format0("\n        <tr>\n            <td> <a href=\"https://download.jetbrains.com/biolabs/span/{0}\">{0}</a></td>\n            <td> Multi-platform JAR package </td>\n        </tr>\n        ",
            format0("span-{0}.jar", build))

span_content(template_html) ==
    replace(replace(replace(template_html, "@TABLE@", span_create_tr(SPAN_BUILD)),
                    "@BUILD@", SPAN_BUILD),
            "@DATE@", SPAN_DATE)

\* ------------------------------------------------------------------------
\* Files
\* ------------------------------------------------------------------------
NoFile == [exists |-> FALSE, data |-> ""]
File(data) == [exists |-> TRUE, data |-> data]

\* names an entry below OUT_FOLDER can have in the model
StaleNames == {"index.html", "img/logo.png"}
OutNames == {JBR_TEMPLATE, SPAN_TEMPLATE} \cup StaleNames
StaleData == "<html>old</html>"

EmptyListing == [n \in OutNames |-> NoFile]
AbsentFolder == [kind |-> "absent", files |-> EmptyListing]
EmptyFolder == [kind |-> "dir", files |-> EmptyListing]

\* os.listdir(OUT_FOLDER), recursively
listing(folder) == {n \in OutNames : folder.files[n].exists}

\* an existence test that never sees the folder
path_exists_never(folder) == FALSE

\* os.path.exists(OUT_FOLDER)
path_exists(folder) == folder.kind # "absent"

\* the states OUT_FOLDER can be in before a run: absent, a regular file of
\* that name, or a directory holding any set of stale entries
InitialFolders ==
    {AbsentFolder, [kind |-> "file", files |-> EmptyListing]}
    \cup {[kind |-> "dir",
           files |-> [n \in OutNames |-> IF n \in S THEN File(StaleData) ELSE NoFile]] :
          S \in SUBSET OutNames}

\* ------------------------------------------------------------------------
\* Template texts
\* ------------------------------------------------------------------------
Pieces == {"@TABLE@", "@BUILD@", "@DATE@",
           "@FILENAME-win@", "@FILENAME-mac@", "@FILENAME-linux@",
           "@FILENAME-win32@", "BUILD@", "@DATE", "<p>"}

RECURSIVE concat(_)
concat(ps) == IF ps = <<>> THEN "" ELSE Head(ps) \o concat(Tail(ps))

TemplateTexts ==
    {concat(ps) : ps \in UNION {[1..n -> Pieces] : n \in 0..MaxPieces}}

\* a template with every placeholder, one of them twice
SiteTemplate ==
    "<h1>@BUILD@</h1> @DATE@ <table>@TABLE@</table> @FILENAME-win@ @FILENAME-mac@ @FILENAME-linux@ @BUILD@"

\* ------------------------------------------------------------------------
\* State
\* ------------------------------------------------------------------------
VARIABLES
    tpl,              \* the template files beside the script: name -> file
    out,              \* OUT_FOLDER: [kind, files]
    pc,               \* position of the process in _cli()
    template_html,    \* local of the running generator
    content,          \* local of generate_jbr_data
    seen_file_names,  \* local of generate_jbr_data
    di,               \* index into descrs of the for loop of generate_jbr_data
    stdout,           \* lines printed by this run
    runs,             \* number of the current run, 1..MaxRuns
    before,           \* history: OUT_FOLDER as this run found it
    prev_pc,          \* history: how the previous run ended, "none" in the first
    started,          \* history: generators entered in this run
    opened,           \* history: output files opened for writing in this run
    subs,             \* history: the replace calls of the filename loop, in order
    err               \* the exception that ended this run, "" when none

vars == <<tpl, out, pc, template_html, content, seen_file_names, di,
          stdout, runs, before, prev_pc, started, opened, subs, err>>

locals == <<template_html, content, seen_file_names, di>>
history == <<started, opened, subs>>

\* the state of one process of the script at its start
Start ==
    /\ pc = "cli_prepare"
    /\ template_html = ""
    /\ content = ""
    /\ seen_file_names = {}
    /\ di = 1
    /\ stdout = <<>>
    /\ started = {}
    /\ opened = {}
    /\ subs = <<>>
    /\ err = ""

\* file-system cases: every initial OUT_FOLDER, each template absent,
\* empty or as shipped
Init ==
    /\ tpl \in [{JBR_TEMPLATE, SPAN_TEMPLATE} -> {NoFile, File(""), File(SiteTemplate)}]
    /\ out \in InitialFolders
    /\ before = out
    /\ runs = 1
    /\ prev_pc = "none"
    /\ Start

\* text cases: a text is drawn from TemplateTexts and is the text of both
\* templates (the generators share nothing but OUT_FOLDER; Init draws the two
\* templates independently)
InitText ==
    /\ \E t \in TemplateTexts :
          tpl = [n \in {JBR_TEMPLATE, SPAN_TEMPLATE} |-> File(t)]
    /\ out \in {AbsentFolder,
                [kind |-> "dir",
                 files |-> [n \in OutNames |-> File(StaleData)]]}
    /\ before = out
    /\ runs = 1
    /\ prev_pc = "none"
    /\ Start

\* an uncaught exception ends the process
Raise(e) ==
    /\ pc' = "error"
    /\ err' = e

\* ------------------------------------------------------------------------
\* File operations
\* ------------------------------------------------------------------------
\* shutil.rmtree(OUT_FOLDER) on a directory
rmtree(folder) == AbsentFolder

\* os.mkdir(OUT_FOLDER) where nothing of that name exists
mkdir(folder) == EmptyFolder

\* open(os.path.join(OUT_FOLDER, name), 'w'): creates or truncates
open_w(folder, name) ==
    [folder EXCEPT !.files[name] = File("")]

\* f.write(data) followed by the close at the end of the with block
write_close(folder, name, data) ==
    [folder EXCEPT !.files[name] = File(data)]

\* ------------------------------------------------------------------------
\* _cli()
\* ------------------------------------------------------------------------
\* a preparation that keeps an existing folder as it is
CliPrepare_noclean ==
    /\ pc = "cli_prepare"
    /\ pc' = IF path_exists(out) THEN "print_jbr" ELSE "cli_mkdir"
    /\ UNCHANGED <<tpl, out, locals, stdout, runs, before, prev_pc, history, err>>

\* if os.path.exists(OUT_FOLDER): shutil.rmtree(OUT_FOLDER)
CliPrepare ==
    /\ pc = "cli_prepare"
    /\ IF path_exists(out)
       THEN IF out.kind = "dir"
            THEN /\ out' = rmtree(out)
                 /\ pc' = "cli_mkdir"
                 /\ UNCHANGED err
            ELSE /\ Raise("NotADirectoryError")
                 /\ UNCHANGED out
       ELSE /\ pc' = "cli_mkdir"
            /\ UNCHANGED <<out, err>>
    /\ UNCHANGED <<tpl, locals, stdout, runs, before, prev_pc, history>>

\* os.mkdir(OUT_FOLDER): fails when anything of that name exists
CliMkdir ==
    /\ pc = "cli_mkdir"
    /\ IF out.kind # "absent"
       THEN /\ Raise("FileExistsError")
            /\ UNCHANGED out
       ELSE /\ out' = mkdir(out)
            /\ pc' = "print_jbr"
            /\ UNCHANGED err
    /\ UNCHANGED <<tpl, locals, stdout, runs, before, prev_pc, history>>

\* the JBR generator is entered without its progress line
CliPrintJbr_silent ==
    /\ pc = "print_jbr"
    /\ pc' = "jbr_read"
    /\ UNCHANGED <<tpl, out, locals, stdout, runs, before, prev_pc, history, err>>

\* print('Creating JetBrains Research JBR page')
CliPrintJbr ==
    /\ pc = "print_jbr"
    /\ stdout' = Append(stdout, "Creating JetBrains Research JBR page")
    /\ pc' = "jbr_read"
    /\ UNCHANGED <<tpl, out, locals, runs, before, prev_pc, history, err>>

\* print('Creating JetBrains Research SPAN page')
CliPrintSpan ==
    /\ pc = "print_span"
    /\ stdout' = Append(stdout, "Creating JetBrains Research SPAN page")
    /\ pc' = "span_read"
    /\ UNCHANGED <<tpl, out, locals, runs, before, prev_pc, history, err>>

\* print('Done'), after which _cli() returns
CliPrintDone ==
    /\ pc = "print_done"
    /\ stdout' = Append(stdout, "Done")
    /\ pc' = "done"
    /\ UNCHANGED <<tpl, out, locals, runs, before, prev_pc, history, err>>

\* ------------------------------------------------------------------------
\* generate_jbr_data()
\* ------------------------------------------------------------------------
\* the output file is opened before the template is read
JbrRead_openfirst ==
    /\ pc = "jbr_read"
    /\ started' = started \cup {"jbr"}
    /\ out' = open_w(out, JBR_TEMPLATE)
    /\ opened' = opened \cup {JBR_TEMPLATE}
    /\ IF tpl[JBR_TEMPLATE].exists
       THEN /\ template_html' = tpl[JBR_TEMPLATE].data
            /\ pc' = "jbr_open"
            /\ UNCHANGED err
       ELSE /\ Raise("FileNotFoundError: " \o JBR_TEMPLATE)
            /\ UNCHANGED template_html
    /\ UNCHANGED <<tpl, content, seen_file_names, di, stdout, runs, before, prev_pc,
                   subs>>

\* with open(os.path.join(DIR, template), 'r') as f: template_html = f.read()
JbrRead ==
    /\ pc = "jbr_read"
    /\ started' = started \cup {"jbr"}
    /\ IF tpl[JBR_TEMPLATE].exists
       THEN /\ template_html' = tpl[JBR_TEMPLATE].data
            /\ pc' = "jbr_open"
            /\ UNCHANGED err
       ELSE /\ Raise("FileNotFoundError: " \o JBR_TEMPLATE)
            /\ UNCHANGED template_html
    /\ UNCHANGED <<tpl, out, content, seen_file_names, di, stdout, runs, before, prev_pc,
                   opened, subs>>

\* with open(os.path.join(OUT_FOLDER, template), 'w') as f:
JbrOpen ==
    /\ pc = "jbr_open"
    /\ IF out.kind = "dir"
       THEN /\ out' = open_w(out, JBR_TEMPLATE)
            /\ opened' = opened \cup {JBR_TEMPLATE}
            /\ pc' = "jbr_subst"
            /\ UNCHANGED err
       ELSE /\ Raise("FileNotFoundError: out")
            /\ UNCHANGED <<out, opened>>
    /\ UNCHANGED <<tpl, locals, stdout, runs, before, prev_pc, started, subs>>

\* descrs = [...]; content = template_html.replace(...)...; seen_file_names = set()
JbrSubst ==
    /\ pc = "jbr_subst"
    /\ content' = jbr_content(template_html)
    /\ seen_file_names' = {}
    /\ di' = 1
    /\ pc' = "jbr_loop"
    /\ UNCHANGED <<tpl, out, template_html, stdout, runs, before, prev_pc, history, err>>

\* the loop without the test of seen_file_names
JbrLoop_noseen ==
    /\ pc = "jbr_loop"
    /\ di <= Len(descrs)
    /\ LET dd == descrs[di]
           fname == filename_key(dd)
       IN /\ seen_file_names' = seen_file_names \cup {fname}
          /\ content' = replace(content, fname, filename_value(dd))
          /\ subs' = Append(subs, <<fname, filename_value(dd)>>)
    /\ di' = di + 1
    /\ UNCHANGED <<tpl, out, pc, template_html, stdout, runs, before, prev_pc, started,
                   opened, err>>

\* one iteration of: for dd in descrs: ...
JbrLoop ==
    /\ pc = "jbr_loop"
    /\ di <= Len(descrs)
    /\ LET dd == descrs[di]
           fname == filename_key(dd)
       IN IF fname \notin seen_file_names
          THEN /\ seen_file_names' = seen_file_names \cup {fname}
               /\ content' = replace(content, fname, filename_value(dd))
               /\ subs' = Append(subs, <<fname, filename_value(dd)>>)
          ELSE UNCHANGED <<seen_file_names, content, subs>>
    /\ di' = di + 1
    /\ UNCHANGED <<tpl, out, pc, template_html, stdout, runs, before, prev_pc, started,
                   opened, err>>

\* f.write(content), the end of the with block, return
JbrWrite ==
    /\ pc = "jbr_loop"
    /\ di > Len(descrs)
    /\ out' = write_close(out, JBR_TEMPLATE, content)
    /\ pc' = "print_span"
    /\ UNCHANGED <<tpl, locals, stdout, runs, before, prev_pc, history, err>>

\* ------------------------------------------------------------------------
\* generate_span_data()
\* ------------------------------------------------------------------------
SpanRead ==
    /\ pc = "span_read"
    /\ started' = started \cup {"span"}
    /\ IF tpl[SPAN_TEMPLATE].exists
       THEN /\ template_html' = tpl[SPAN_TEMPLATE].data
            /\ pc' = "span_open"
            /\ UNCHANGED err
       ELSE /\ Raise("FileNotFoundError: " \o SPAN_TEMPLATE)
            /\ UNCHANGED template_html
    /\ UNCHANGED <<tpl, out, content, seen_file_names, di, stdout, runs, before, prev_pc,
                   opened, subs>>

SpanOpen ==
    /\ pc = "span_open"
    /\ IF out.kind = "dir"
       THEN /\ out' = open_w(out, SPAN_TEMPLATE)
            /\ opened' = opened \cup {SPAN_TEMPLATE}
            /\ pc' = "span_write"
            /\ UNCHANGED err
       ELSE /\ Raise("FileNotFoundError: out")
            /\ UNCHANGED <<out, opened>>
    /\ UNCHANGED <<tpl, locals, stdout, runs, before, prev_pc, started, subs>>

\* f.write(template_html.replace(...)...), the end of the with block, return
SpanWrite ==
    /\ pc = "span_write"
    /\ out' = write_close(out, SPAN_TEMPLATE, span_content(template_html))
    /\ pc' = "print_done"
    /\ UNCHANGED <<tpl, locals, stdout, runs, before, prev_pc, history, err>>

\* ------------------------------------------------------------------------
\* The script is run again: a new process, the files as the last run left them
\* ------------------------------------------------------------------------
Rerun ==
    /\ pc \in {"done", "error"}
    /\ runs < MaxRuns
    /\ runs' = runs + 1
    /\ before' = out
    /\ prev_pc' = pc
    /\ pc' = "cli_prepare"
    /\ template_html' = ""
    /\ content' = ""
    /\ seen_file_names' = {}
    /\ di' = 1
    /\ stdout' = <<>>
    /\ started' = {}
    /\ opened' = {}
    /\ subs' = <<>>
    /\ err' = ""
    /\ UNCHANGED <<tpl, out>>

Next ==
    \/ CliPrepare
    \/ CliMkdir
    \/ CliPrintJbr
    \/ JbrRead
    \/ JbrOpen
    \/ JbrSubst
    \/ JbrLoop
    \/ JbrWrite
    \/ CliPrintSpan
    \/ SpanRead
    \/ SpanOpen
    \/ SpanWrite
    \/ CliPrintDone
    \/ Rerun

Spec == Init /\ [][Next]_vars
SpecText == InitText /\ [][Next]_vars

TypeOK ==
    /\ pc \in {"cli_prepare", "cli_mkdir", "print_jbr", "jbr_read", "jbr_open",
               "jbr_subst", "jbr_loop", "print_span", "span_read", "span_open",
               "span_write", "print_done", "done", "error"}
    /\ out.kind \in {"absent", "dir", "file"}
    /\ runs \in 1..MaxRuns
    /\ di \in 1..(Len(descrs) + 1)

\* ========================================================================
\* Properties
\* ========================================================================
\* the output file of a generator has been written and closed in this run
JbrWritten == JBR_TEMPLATE \in opened /\ pc \notin {"jbr_subst", "jbr_loop"}
SpanWritten == SPAN_TEMPLATE \in opened /\ pc # "span_write"

\* the generator has just written its file and returned; the file is not
\* touched again in this run
JbrReturned == pc = "print_span"
SpanReturned == pc = "print_done"

\* the number of places at which sub occurs in s
occurrences(s, sub) ==
    Cardinality({i \in 1..(Len(s) - Len(sub) + 1) :
                    SubSeq(s, i, i + Len(sub) - 1) = sub})

Recognized == {"@TABLE@", "@BUILD@", "@DATE@"}
FolderKeys == {"@FILENAME-win@", "@FILENAME-mac@", "@FILENAME-linux@"}

\* the rows as the pages must show them, written out in full
RowWin64 ==
    "\n        <tr>\n            <td> <a href=\"https://download.jetbrains.com/biolabs/jbr_browser/win/jbr-1.0.beta.4882_x64.zip\">jbr-1.0.beta.4882_x64.zip</a></td>\n            <td>Windows 64-bit ZIP archive (includes bundled 64-bit Java Runtime)</td>\n        </tr>\n        "
RowWin32 ==
    "\n        <tr>\n            <td> <a href=\"https://download.jetbrains.com/biolabs/jbr_browser/win/jbr-1.0.beta.4882_x86.zip\">jbr-1.0.beta.4882_x86.zip</a></td>\n            <td>Windows 32-bit ZIP archive (includes bundled 32-bit Java Runtime)</td>\n        </tr>\n        "
RowMac ==
    "\n        <tr>\n            <td> <a href=\"https://download.jetbrains.com/biolabs/jbr_browser/mac/jbr-1.0.beta.4882.dmg\">jbr-1.0.beta.4882.dmg</a></td>\n            <td>Mac installer (includes bundled 64-bit Java Runtime)</td>\n        </tr>\n        "
RowLinux ==
    "\n        <tr>\n            <td> <a href=\"https://download.jetbrains.com/biolabs/jbr_browser/linux/jbr-1.0.beta.4882.tar.gz\">jbr-1.0.beta.4882.tar.gz</a></td>\n            <td>Linux archive (includes bundled 64-bit Java Runtime)</td>\n        </tr>\n        "
RowSpan ==
    "\n        <tr>\n            <td> <a href=\"https://download.jetbrains.com/biolabs/span/span-0.11.0.4882.jar\">span-0.11.0.4882.jar</a></td>\n            <td> Multi-platform JAR package </td>\n        </tr>\n        "

\* ---- C1 ----------------------------------------------------------------
\* C1: whatever OUT_FOLDER was before the run (absent, empty, holding stale
\* files), once the run has completed without error OUT_FOLDER is a directory
\* that holds exactly jetbrains_research_jbr.html and
\* jetbrains_research_span.html.
C1_ExactlyTwoFiles ==
    pc = "done" =>
        /\ out.kind = "dir"
        /\ listing(out) = {"jetbrains_research_jbr.html", "jetbrains_research_span.html"}

\* a completed first run that found every stale entry in OUT_FOLDER
C1_Witness ==
    /\ pc = "done"
    /\ runs = 1
    /\ before.kind = "dir"
    /\ listing(before) = OutNames

\* ---- C2 ----------------------------------------------------------------
\* C2: when a template file is absent its generator never opens its output
\* file, so after the folder was prepared that file does not exist; an output
\* file is opened only after its template was read; and when the JBR template
\* is absent the SPAN generator is not entered in that run.
Prepared ==
    /\ pc \notin {"cli_prepare", "cli_mkdir"}
    /\ err \notin {"NotADirectoryError", "FileExistsError"}

C2_MissingTemplate ==
    /\ ~tpl[JBR_TEMPLATE].exists =>
          /\ JBR_TEMPLATE \notin opened
          /\ Prepared => ~out.files[JBR_TEMPLATE].exists
          /\ "span" \notin started
          /\ SPAN_TEMPLATE \notin opened
    /\ ~tpl[SPAN_TEMPLATE].exists =>
          /\ SPAN_TEMPLATE \notin opened
          /\ Prepared => ~out.files[SPAN_TEMPLATE].exists
    /\ pc = "jbr_subst" => template_html = tpl[JBR_TEMPLATE].data
    /\ pc = "span_write" => template_html = tpl[SPAN_TEMPLATE].data

\* the run was aborted by the missing JBR template, and the folder it found
\* held a file of the output's name
C2_Witness ==
    /\ pc = "error"
    /\ "jbr" \in started
    /\ ~tpl[JBR_TEMPLATE].exists
    /\ tpl[SPAN_TEMPLATE].exists
    /\ before.kind = "dir"
    /\ before.files[JBR_TEMPLATE].exists

\* ---- C3 ----------------------------------------------------------------
\* C3: the text either generator has written to its output file, read when
\* the generator returns, contains no
\* occurrence of @TABLE@, @BUILD@ or @DATE@, however often the template
\* contained them.
C3_FullSubstitution ==
    /\ JbrReturned =>
          \A p \in Recognized : find(out.files[JBR_TEMPLATE].data, p, 1) = 0
    /\ SpanReturned =>
          \A p \in Recognized : find(out.files[SPAN_TEMPLATE].data, p, 1) = 0

\* both files are written and the drawn template held the three placeholders
C3_Witness ==
    /\ pc = "done"
    /\ tpl[JBR_TEMPLATE] = tpl[SPAN_TEMPLATE]
    /\ \A p \in Recognized : occurrences(tpl[JBR_TEMPLATE].data, p) = 1

\* ---- C4 ----------------------------------------------------------------
\* C4: the filename loop calls replace once per distinct key, in list order,
\* with the value of the first descriptor of that folder: win -> _x64.zip,
\* mac -> .dmg, linux -> .tar.gz; _x86.zip is never a filename value, and a
\* template of the three filename placeholders is written as the three names.
C4_Substitutions ==
    <<<<"@FILENAME-win@", "1.0.beta.4882_x64.zip">>,
      <<"@FILENAME-mac@", "1.0.beta.4882.dmg">>,
      <<"@FILENAME-linux@", "1.0.beta.4882.tar.gz">>>>

C4_FirstWins ==
    /\ Len(subs) <= Len(C4_Substitutions)
    /\ \A k \in 1..Len(subs) : subs[k] = C4_Substitutions[k]
    /\ (pc = "jbr_loop" /\ di > Len(descrs)) => subs = C4_Substitutions
    /\ JbrWritten => subs = C4_Substitutions
    /\ JbrReturned =>
          /\ find(tpl[JBR_TEMPLATE].data, "@TABLE@", 1) = 0
                => find(out.files[JBR_TEMPLATE].data, "_x86.zip", 1) = 0
          /\ tpl[JBR_TEMPLATE].data = "@FILENAME-win@@FILENAME-mac@@FILENAME-linux@"
                => out.files[JBR_TEMPLATE].data
                     = "1.0.beta.4882_x64.zip1.0.beta.4882.dmg1.0.beta.4882.tar.gz"

\* the JBR page is written from a template of the three filename placeholders
C4_Witness ==
    /\ JbrWritten
    /\ tpl[JBR_TEMPLATE].data = "@FILENAME-win@@FILENAME-mac@@FILENAME-linux@"

\* ---- C5 ----------------------------------------------------------------
\* C5: what the JBR generator puts in the place of @TABLE@ is the four rows
\* Windows 64-bit, Windows 32-bit, Mac, Linux in this order, joined by a
\* newline, each linking to .../jbr_browser/<folder>/jbr-1.0.beta.4882<suffix>
\* with that file name as the link text and the title in the second cell.
C5_Table == RowWin64 \o "\n" \o RowWin32 \o "\n" \o RowMac \o "\n" \o RowLinux

C5_JbrTable ==
    (JbrReturned /\ tpl[JBR_TEMPLATE].data \in {"@TABLE@", "<p>@TABLE@<p>"}) =>
        /\ occurrences(out.files[JBR_TEMPLATE].data, "<tr>") = 4
        /\ out.files[JBR_TEMPLATE].data =
              IF tpl[JBR_TEMPLATE].data = "@TABLE@" THEN C5_Table
              ELSE "<p>" \o C5_Table \o "<p>"

\* the JBR page is written from the template <p>@TABLE@<p>
C5_Witness ==
    /\ JbrWritten
    /\ tpl[JBR_TEMPLATE].data = "<p>@TABLE@<p>"

\* ---- C6 ----------------------------------------------------------------
\* C6: what the SPAN generator puts in the place of @TABLE@ is one row, which
\* links to https://download.jetbrains.com/biolabs/span/span-0.11.0.4882.jar
\* with span-0.11.0.4882.jar as the link text.
C6_SpanTable ==
    (SpanReturned /\ tpl[SPAN_TEMPLATE].data \in {"@TABLE@", "<p>@TABLE@<p>"}) =>
        /\ occurrences(out.files[SPAN_TEMPLATE].data, "<tr>") = 1
        /\ out.files[SPAN_TEMPLATE].data =
              IF tpl[SPAN_TEMPLATE].data = "@TABLE@" THEN RowSpan
              ELSE "<p>" \o RowSpan \o "<p>"

\* the SPAN page is written from the template <p>@TABLE@<p>
C6_Witness ==
    /\ SpanWritten
    /\ tpl[SPAN_TEMPLATE].data = "<p>@TABLE@<p>"

\* ---- C7 ----------------------------------------------------------------
\* C7: when a run that follows a completed run has ended, it has completed
\* too and OUT_FOLDER, file names and file contents, is as the run before
\* left it.
C7_Idempotent ==
    (runs >= 2 /\ prev_pc = "done" /\ pc \in {"done", "error"}) =>
        /\ pc = "done"
        /\ out = before

\* the second of two completed runs has ended
C7_Witness ==
    /\ runs = 2
    /\ prev_pc = "done"
    /\ pc = "done"
    /\ tpl[JBR_TEMPLATE].data = SiteTemplate

\* ---- C8 ----------------------------------------------------------------
\* C8 as stated: no line is printed before both generators have run.
C8_NoLineBeforeGenerators ==
    stdout # <<>> => (JbrWritten /\ SpanWritten)

\* C8 as amended: the folder is prepared, then the JBR progress line is
\* printed, then the JBR generator runs, then the SPAN progress line is
\* printed, then the SPAN generator runs, then Done is printed; a generator is
\* entered only after its progress line, the SPAN line follows the written JBR
\* file, and Done follows both written files.
C8_Order ==
    /\ Len(stdout) <= 3
    /\ Len(stdout) >= 1 =>
          /\ stdout[1] = "Creating JetBrains Research JBR page"
          /\ Prepared
    /\ "jbr" \in started => Len(stdout) >= 1
    /\ Len(stdout) >= 2 =>
          /\ stdout[2] = "Creating JetBrains Research SPAN page"
          /\ JbrWritten
    /\ "span" \in started => Len(stdout) >= 2
    /\ Len(stdout) >= 3 =>
          /\ stdout[3] = "Done"
          /\ JbrWritten /\ SpanWritten
          /\ pc = "done"
    /\ pc = "done" => Len(stdout) = 3
    /\ ~Prepared => started = {} /\ stdout = <<>>

\* the run has completed and printed its three lines
C8_Witness ==
    /\ pc = "done"
    /\ Len(stdout) = 3
    /\ listing(before) # {}

\* ---- C9 ----------------------------------------------------------------
\* C9: nothing is rolled back.  Once a generator has been entered OUT_FOLDER
\* holds no entry but the output files opened in this run; after a run
\* aborted by the missing JBR template OUT_FOLDER is an empty directory, after
\* one aborted by the missing SPAN template it holds jetbrains_research_jbr.html
\* alone.
C9_NoRollback ==
    /\ started # {} =>
          /\ out.kind = "dir"
          /\ listing(out) = opened
    /\ (pc = "error" /\ started = {"jbr"}) =>
          /\ out.kind = "dir"
          /\ listing(out) = {}
    /\ (pc = "error" /\ started = {"jbr", "span"}) =>
          /\ out.kind = "dir"
          /\ listing(out) = {"jetbrains_research_jbr.html"}

\* the run was aborted by the missing SPAN template, and the folder it found
\* held stale entries and an old SPAN page
C9_Witness ==
    /\ pc = "error"
    /\ started = {"jbr", "span"}
    /\ ~tpl[SPAN_TEMPLATE].exists
    /\ before.kind = "dir"
    /\ StaleNames \cup {SPAN_TEMPLATE} \subseteq listing(before)

\* ---- C10 ---------------------------------------------------------------
\* the token tok has, in the text t, an occurrence whose first or last @ is
\* also the last or first @ of an occurrence of one of the placeholders ps
SharesDelimiter(t, tok, ps) ==
    \E i \in 1..(Len(t) - Len(tok) + 1) :
        /\ SubSeq(t, i, i + Len(tok) - 1) = tok
        /\ \E p \in ps :
              \/ /\ i + Len(tok) + Len(p) - 2 <= Len(t)
                 /\ SubSeq(t, i + Len(tok) - 1, i + Len(tok) + Len(p) - 2) = p
              \/ /\ i - Len(p) + 1 >= 1
                 /\ SubSeq(t, i - Len(p) + 1, i) = p

\* C10 as stated: @FILENAME-win32@ in the JBR template, and every
\* @FILENAME-...@ token in the SPAN template, is in the written text wherever
\* and as often as it is in the template; the run completes.
C10_TokenUnchanged ==
    /\ JbrReturned =>
          occurrences(out.files[JBR_TEMPLATE].data, "@FILENAME-win32@")
             = occurrences(tpl[JBR_TEMPLATE].data, "@FILENAME-win32@")
    /\ SpanReturned =>
          \A tok \in FolderKeys \cup {"@FILENAME-win32@"} :
             occurrences(out.files[SPAN_TEMPLATE].data, tok)
                = occurrences(tpl[SPAN_TEMPLATE].data, tok)
    /\ pc # "error"

\* C10 as amended: the same, for the tokens none of whose occurrences shares
\* its first or last @ with an occurrence of a placeholder the generator
\* replaces.
C10_TokenUnchangedUnlessShared ==
    /\ (JbrReturned /\ ~SharesDelimiter(tpl[JBR_TEMPLATE].data, "@FILENAME-win32@",
                                       Recognized \cup FolderKeys)) =>
          occurrences(out.files[JBR_TEMPLATE].data, "@FILENAME-win32@")
             = occurrences(tpl[JBR_TEMPLATE].data, "@FILENAME-win32@")
    /\ SpanReturned =>
          \A tok \in FolderKeys \cup {"@FILENAME-win32@"} :
             ~SharesDelimiter(tpl[SPAN_TEMPLATE].data, tok, Recognized) =>
                occurrences(out.files[SPAN_TEMPLATE].data, tok)
                   = occurrences(tpl[SPAN_TEMPLATE].data, tok)
    /\ pc # "error"

\* both pages are written from a template that holds @FILENAME-win32@ beside
\* placeholders that are replaced
C10_Witness ==
    /\ pc = "done"
    /\ tpl[JBR_TEMPLATE].data = "@BUILD@@FILENAME-win32@@FILENAME-win@"
    /\ tpl[SPAN_TEMPLATE].data = "@BUILD@@FILENAME-win32@@FILENAME-win@"

====
